---- MODULE Spec2Model ----
(***************************************************************************)
(* lotto-action: the run controller of src/index.ts.  One process run is   *)
(* run(): label bootstrap, session bootstrap, runWinningCheck (a fan-out   *)
(* of per-issue pipelines, each a fan-out of service.check calls) and      *)
(* runPurchase.  The issue tracker (the ticket store) outlives the process *)
(* and is shared by successive runs.  Every action is the code between one *)
(* await and the next: the completion of the awaited call, followed by the *)
(* synchronous code up to and including the issue of the next call.        *)
(***************************************************************************)
EXTENDS Integers, Sequences, FiniteSets, TLC

\* ---------------------------------------------------------------- bounds
MaxRuns == 2            \* process runs on one store
MaxInitTickets == 1     \* issues already in the store before the first run
MaxCombos == 2          \* combinations in the body of such an issue
MaxAmountInput == 7     \* largest numeric purchase-amount input tried
FirstRound == 1084      \* getCurrentLottoRound() when the first run starts

\* ------------------------------------------------------ program constants
DefaultAmount == 5      \* Number(...) || 5
MinAmount == 1          \* Math.max(1, ...)
MaxAmount == 5          \* Math.min(amountInput, 5)
ExitStatus == 0         \* process.exit(0)

Tickets == 1..(MaxInitTickets + MaxRuns)

\* ranks a check may report (the automation library's ranks are 0..5; two of
\* them are enough to tell equal outcomes from different ones)
Ranks == {3, 5}

\* thrown values: an Error instance or any other value, tagged by the call
\* that threw it (its message)
NoError == [isError |-> FALSE, message |-> "none"]
Thrown(op) == {[isError |-> b, message |-> op] : b \in BOOLEAN}

\* issue bodies: absent (null or empty), text bodyParser cannot decode, or an
\* encoded purchase
\* service.getCheckWinningLink(round, numbers): a URL that names both arguments
getCheckWinningLink(round, nums) == [round |-> round, numbers |-> nums]
NoLink == getCheckWinningLink(0, <<>>)
AbsentBody == [kind |-> "absent", round |-> 0, numbers |-> <<>>, link |-> NoLink]
GarbledBody == [kind |-> "garbled", round |-> 0, numbers |-> <<>>, link |-> NoLink]

\* purchase-amount inputs: absent (empty string), non-numeric text, or the
\* decimal text of an integer
NoInput == [kind |-> "absent", value |-> 0]
AmountInputs ==
    {NoInput, [kind |-> "text", value |-> 0]}
        \cup {[kind |-> "number", value |-> n] : n \in (0 - 1)..MaxAmountInput}

VARIABLES
    pc,             \* the call run() is awaiting, or "idle" / "exited"
    run,            \* number of process runs started
    currentRound,   \* what getCurrentLottoRound() returns
    status,         \* store: "None" | "Awaiting" | "Checked" per issue number
    body,           \* store: issue body
    labels,         \* store: rank labels attached to the issue
    marked,         \* store: markIssueAsChecked updates applied per issue
    waitingIssues,  \* runWinningCheck: the fetched issues
    pipe,           \* state of the per-issue promise
    checks,         \* per issue, per combination: the service.check promise
    rankLabels,     \* per issue: the argument of markIssueAsChecked
    fault,          \* per issue: what made its pipeline throw, if anything
    rejectedIssues, \* rejectedIssues.length
    amountInput,    \* core.getInput(lottoPurchaseAmount)
    amount,         \* the clamped amount
    numbers,        \* the combinations service.purchase returned
    issueBody,      \* the body passed to createWaitingIssue
    caught,         \* the value caught by runPurchase's catch
    failed,         \* messages passed to core.setFailed
    exitCode,       \* process.exitCode
    exitStatus,     \* status the process exited with (-1: not exited)
    calls,          \* per run: number of calls issued, by callee
    threw           \* per run: the calls that threw into a catch block

storeVars == <<status, body, labels, marked>>
checkVars == <<waitingIssues, pipe, checks, rankLabels, fault, rejectedIssues>>
pipeVars == <<waitingIssues, pipe, rankLabels, fault, rejectedIssues>>
purchaseVars == <<amountInput, amount, numbers, issueBody, caught>>
exitVars == <<failed, exitCode, exitStatus>>
vars == <<pc, run, currentRound, storeVars, checkVars, purchaseVars, exitVars, calls, threw>>

Callees == {"getWaitingIssues", "signIn", "check", "markIssueAsChecked",
            "purchase", "createWaitingIssue", "destroy"}

Called(op, n) == [calls EXCEPT ![op] = @ + n]

\* ------------------------------------------------- the store (collaborator)
\* getWaitingIssues(): the issues carrying the waiting label
getWaitingIssues == {t \in Tickets : status[t] = "Awaiting"}

\* rankToLabel(rank): the fixed rank -> label table
rankToLabel(r) ==
    CASE r = 0 -> "losing"
      [] r = 1 -> "winning-1st"
      [] r = 2 -> "winning-2nd"
      [] r = 3 -> "winning-3rd"
      [] r = 4 -> "winning-4th"
      [] r = 5 -> "winning-5th"

\* bodyBuilder({date, round, numbers, link}) and bodyParser(body)
bodyBuilder(round, nums, link) ==
    [kind |-> "encoded", round |-> round, numbers |-> nums, link |-> link]
bodyParser(b) == [numbers |-> b.numbers, round |-> b.round]
Decodes(b) == b.kind = "encoded"

\* ------------------------------------------------------------------ Init
\* bodies of the issues found in the store by the first run
InitBodies ==
    {AbsentBody, GarbledBody}
        \cup {bodyBuilder(FirstRound, [i \in 1..n |-> i],
                          getCheckWinningLink(FirstRound, [i \in 1..n |-> i])) :
                  n \in 0..MaxCombos}

\* the state before a process is started, r runs having gone before
InitAt(r) ==
    /\ pc = "idle"
    /\ run = r
    /\ currentRound = FirstRound
    /\ \E k \in 0..MaxInitTickets :
        /\ status = [t \in Tickets |-> IF t <= k THEN "Awaiting" ELSE "None"]
        /\ body \in [Tickets -> InitBodies]
        /\ \A t \in Tickets : t > k => body[t] = AbsentBody
    /\ labels = [t \in Tickets |-> {}]
    /\ marked = [t \in Tickets |-> 0]
    /\ waitingIssues = {}
    /\ pipe = [t \in Tickets |-> "none"]
    /\ checks = [t \in Tickets |-> <<>>]
    /\ rankLabels = [t \in Tickets |-> <<>>]
    /\ fault = [t \in Tickets |-> "none"]
    /\ rejectedIssues = 0
    /\ amountInput = NoInput
    /\ amount = 0
    /\ numbers = <<>>
    /\ issueBody = AbsentBody
    /\ caught = NoError
    /\ failed = <<>>
    /\ exitCode = 0
    /\ exitStatus = 0 - 1
    /\ calls = [op \in Callees |-> 0]
    /\ threw = {}

Init == InitAt(0)

\* the store as found by the last scheduled run
LastRunInit == InitAt(MaxRuns - 1)

\* ------------------------------------------------------------ run(), exit
\* core.setFailed(message): records the message and sets process.exitCode
setFailed(e) ==
    /\ failed' = Append(failed, e.message)
    /\ exitCode' = 1

\* variant: process.exit() without a code ends with process.exitCode
processExitDefault == exitCode'

\* process.exit(0) in run()'s finally: the status the process ends with
processExit == ExitStatus

\* run()'s finally block: the process ends, and the calls still in flight
\* end with it
runFinally ==
    /\ pc' = "exited"
    /\ exitStatus' = processExit
    /\ checks' = [t \in Tickets |-> <<>>]

\* run()'s catch block, then its finally block
runCatch(e) ==
    /\ threw' = threw \cup {e.message}
    /\ IF e.isError THEN setFailed(e) ELSE UNCHANGED <<failed, exitCode>>
    /\ runFinally

Running == pc \notin {"idle", "exited"}

\* the scheduler starts the process; nothing of an earlier process survives
\* but the store.  Runs are scheduled one draw apart.
StartRun ==
    /\ pc \in {"idle", "exited"}
    /\ run < MaxRuns
    /\ run' = run + 1
    /\ currentRound' = FirstRound + run
    /\ pc' = "initLabels"
    /\ waitingIssues' = {}
    /\ pipe' = [t \in Tickets |-> "none"]
    /\ checks' = [t \in Tickets |-> <<>>]
    /\ rankLabels' = [t \in Tickets |-> <<>>]
    /\ fault' = [t \in Tickets |-> "none"]
    /\ rejectedIssues' = 0
    /\ amountInput' = NoInput
    /\ amount' = 0
    /\ numbers' = <<>>
    /\ issueBody' = AbsentBody
    /\ caught' = NoError
    /\ failed' = <<>>
    /\ exitCode' = 0
    /\ exitStatus' = 0 - 1
    /\ calls' = [op \in Callees |-> 0]
    /\ threw' = {}
    /\ UNCHANGED storeVars

\* -------------------------------------------------------------- bootstrap
\* runInitRepo: initLabels() returns; runActionsEnvironments starts and
\* awaits installBrowser
InitLabelsOk ==
    /\ pc = "initLabels"
    /\ pc' = "installBrowser"
    /\ UNCHANGED <<run, currentRound, threw, storeVars, checkVars, purchaseVars, exitVars, calls>>

\* variant: a failed label bootstrap is swallowed and the run goes on
InitLabelsFailIgnored ==
    /\ pc = "initLabels"
    /\ threw' = threw \cup {"initLabels"}
    /\ pc' = "installBrowser"
    /\ UNCHANGED <<run, currentRound, storeVars, checkVars, purchaseVars, exitVars, calls>>

\* runInitRepo: initLabels() throws, up to run()'s catch
InitLabelsFail ==
    /\ pc = "initLabels"
    /\ \E e \in Thrown("initLabels") : runCatch(e)
    /\ UNCHANGED <<run, currentRound, storeVars, pipeVars, purchaseVars, calls>>

\* runWinningCheck starts: getWaitingIssues() is issued
beginWinningCheck ==
    /\ pc' = "getWaitingIssues"
    /\ calls' = Called("getWaitingIssues", 1)

\* installBrowser returns; the inputs are read, the service is constructed
\* and, with both credentials given, signIn is issued
InstallBrowserOk ==
    /\ pc = "installBrowser"
    /\ \E id \in {"", "id"}, pwd \in {"", "pwd"} :
        IF id # "" /\ pwd # ""
        THEN /\ pc' = "signIn"
             /\ calls' = Called("signIn", 1)
        ELSE beginWinningCheck
    /\ UNCHANGED <<run, currentRound, threw, storeVars, checkVars, purchaseVars, exitVars>>

InstallBrowserFail ==
    /\ pc = "installBrowser"
    /\ \E e \in Thrown("installBrowser") : runCatch(e)
    /\ UNCHANGED <<run, currentRound, storeVars, pipeVars, purchaseVars, calls>>

\* installBrowser returns and new LottoService(...) throws
ConstructFail ==
    /\ pc = "installBrowser"
    /\ \E e \in Thrown("LottoService") : runCatch(e)
    /\ UNCHANGED <<run, currentRound, storeVars, pipeVars, purchaseVars, calls>>

SignInOk ==
    /\ pc = "signIn"
    /\ beginWinningCheck
    /\ UNCHANGED <<run, currentRound, threw, storeVars, checkVars, purchaseVars, exitVars>>

\* variant: a sign-in failure that is swallowed, the run going on unsigned
SignInFailIgnored ==
    /\ pc = "signIn"
    /\ threw' = threw \cup {"signIn"}
    /\ beginWinningCheck
    /\ UNCHANGED <<run, currentRound, storeVars, checkVars, purchaseVars, exitVars>>

SignInFail ==
    /\ pc = "signIn"
    /\ \E e \in Thrown("signIn") : runCatch(e)
    /\ UNCHANGED <<run, currentRound, storeVars, pipeVars, purchaseVars, calls>>

\* ---------------------------------------------------------- runPurchase (1)
Min(a, b) == IF a < b THEN a ELSE b
Max(a, b) == IF a > b THEN a ELSE b

\* Number(text): NaN for non-numeric text, 0 for the empty string
Number(inp) ==
    [nan |-> inp.kind = "text",
     value |-> IF inp.kind = "number" THEN inp.value ELSE 0]

\* Number(core.getInput(...)) || 5: NaN and 0 are both falsy
AmountOrDefault(inp) ==
    LET n == Number(inp)
    IN  IF n.nan \/ n.value = 0 THEN DefaultAmount ELSE n.value

\* Math.max(1, Math.min(amountInput, 5))
ClampAmount(x) == Max(MinAmount, Min(x, MaxAmount))

\* runPurchase up to its first await: the amount is read and clamped and
\* service.purchase(amount) is issued.  c is the call count so far.
beginPurchase(c) ==
    /\ \E inp \in AmountInputs :
        /\ amountInput' = inp
        /\ amount' = ClampAmount(AmountOrDefault(inp))
    /\ pc' = "purchase"
    /\ calls' = [c EXCEPT !["purchase"] = @ + 1]
    /\ UNCHANGED <<numbers, issueBody, caught>>

\* ------------------------------------------------------- runWinningCheck
RECURSIVE Dedup(_)
\* [...new Set(array)]: the distinct elements, in order of first occurrence
Dedup(s) ==
    IF s = <<>> THEN <<>>
    ELSE LET front == Dedup(SubSeq(s, 1, Len(s) - 1))
             last == s[Len(s)]
         IN  IF \E i \in 1..Len(front) : front[i] = last
             THEN front
             ELSE Append(front, last)

\* variant: the labels are not passed through a Set
RankLabelsNoSet(ranks) == [i \in 1..Len(ranks) |-> rankToLabel(ranks[i])]

\* [...new Set(ranks.map(it => rankToLabel(it)))]
RankLabelsOf(ranks) == Dedup([i \in 1..Len(ranks) |-> rankToLabel(ranks[i])])

\* the ranks array Promise.all resolves with: in the order of numbers
RanksOf(chks) == [i \in 1..Len(chks) |-> chks[i].rank]

Pending == [st |-> "pending", rank |-> 0 - 1]
Rejected == [st |-> "rejected", rank |-> 0 - 1]
Fulfilled(r) == [st |-> "fulfilled", rank |-> r]
\* a settled check whose outcome nothing reads: its Promise.all has rejected
Dropped == [st |-> "dropped", rank |-> 0 - 1]
DropSettled(chks) ==
    [i \in 1..Len(chks) |-> IF chks[i].st = "pending" THEN Pending ELSE Dropped]

\* variant: the checks are awaited to the end and a rejection among them is
\* not raised
PromiseAllIgnoringRejections(chks) ==
    IF \A i \in 1..Len(chks) : chks[i].st # "pending" THEN "fulfilled"
    ELSE "pending"

\* Promise.all(checkPromises): rejects with the first rejection, resolves
\* when every promise has resolved
PromiseAll(chks) ==
    IF \E i \in 1..Len(chks) : chks[i].st = "rejected" THEN "rejected"
    ELSE IF \A i \in 1..Len(chks) : chks[i].st = "fulfilled" THEN "fulfilled"
    ELSE "pending"

Settled(p) == p \in {"fulfilled", "rejected"}

\* variant: Promise.all(promises), which settles at the first rejection
PromiseAllOfPipes(ps, issues) ==
    \/ \E t \in issues : ps[t] = "rejected"
    \/ \A t \in issues : ps[t] = "fulfilled"

\* Promise.allSettled(promises): resolves when every pipeline has settled
PromiseAllSettled(ps, issues) == \A t \in issues : Settled(ps[t])

\* variant: the filter keeps the results whose status is 'fulfilled'
FulfilledCount(ps, issues) == Cardinality({t \in issues : ps[t] = "fulfilled"})

\* results.filter(result => result.status === 'rejected').length
RejectedCount(ps, issues) == Cardinality({t \in issues : ps[t] = "rejected"})

\* variant: every issue of the store is fetched, whatever its label
FetchedAnyIssues == {t \in Tickets : status[t] # "None"}

\* const waitingIssues = await getWaitingIssues()
FetchedIssues == getWaitingIssues

\* variant: an issue without combinations is skipped, like one without body
StartPipeSkipsEmpty(t) ==
    IF body[t].kind = "absent" THEN "fulfilled"
    ELSE IF ~Decodes(body[t]) THEN "rejected"
    ELSE IF Len(bodyParser(body[t]).numbers) = 0 THEN "fulfilled"
    ELSE "awaitChecks"

\* the synchronous start of the async callback for one issue, and the
\* microtasks it leaves behind: Promise.all([]) resolves at once
StartPipe(t) ==
    IF body[t].kind = "absent" THEN "fulfilled"
    ELSE IF ~Decodes(body[t]) THEN "rejected"
    ELSE IF Len(bodyParser(body[t]).numbers) = 0 THEN "awaitMark"
    ELSE "awaitChecks"

StartChecks(t) ==
    IF StartPipe(t) = "awaitChecks"
    THEN [i \in 1..Len(bodyParser(body[t]).numbers) |-> Pending]
    ELSE <<>>

RECURSIVE SumOver(_, _)
SumOver(f, S) ==
    IF S = {} THEN 0
    ELSE LET x == CHOOSE y \in S : TRUE IN f[x] + SumOver(f, S \ {x})

\* getWaitingIssues() returns: with no issue, runWinningCheck returns and
\* runPurchase starts; otherwise every pipeline is started, each issuing all
\* its checks, and Promise.allSettled is awaited
\* variant: with no issue to check the run ends without purchasing
GetWaitingIssuesOkEndsOnEmpty ==
    /\ pc = "getWaitingIssues"
    /\ LET issues == FetchedIssues
       IN  /\ waitingIssues' = issues
           /\ IF Cardinality(issues) > 0
              THEN /\ pipe' = [t \in Tickets |-> IF t \in issues THEN StartPipe(t) ELSE "none"]
                   /\ checks' = [t \in Tickets |-> IF t \in issues THEN StartChecks(t) ELSE <<>>]
                   /\ fault' = [t \in Tickets |->
                                  IF t \in issues /\ StartPipe(t) = "rejected"
                                  THEN "decode" ELSE "none"]
                   /\ calls' = [calls EXCEPT
                                  !["check"] = @ + SumOver([t \in Tickets |-> Len(StartChecks(t))], issues),
                                  !["markIssueAsChecked"] =
                                      @ + Cardinality({t \in issues : StartPipe(t) = "awaitMark"})]
                   /\ pc' = "allSettled"
                   /\ UNCHANGED <<purchaseVars, exitVars>>
              ELSE /\ UNCHANGED <<pipe, fault, calls, purchaseVars, failed, exitCode>>
                   /\ runFinally
    /\ UNCHANGED <<run, currentRound, threw, storeVars, rankLabels, rejectedIssues>>

GetWaitingIssuesOk ==
    /\ pc = "getWaitingIssues"
    /\ LET issues == FetchedIssues
       IN  /\ waitingIssues' = issues
           /\ IF Cardinality(issues) > 0
              THEN /\ pipe' = [t \in Tickets |-> IF t \in issues THEN StartPipe(t) ELSE "none"]
                   /\ checks' = [t \in Tickets |-> IF t \in issues THEN StartChecks(t) ELSE <<>>]
                   /\ fault' = [t \in Tickets |->
                                  IF t \in issues /\ StartPipe(t) = "rejected"
                                  THEN "decode" ELSE "none"]
                   /\ calls' = [calls EXCEPT
                                  !["check"] = @ + SumOver([t \in Tickets |-> Len(StartChecks(t))], issues),
                                  !["markIssueAsChecked"] =
                                      @ + Cardinality({t \in issues : StartPipe(t) = "awaitMark"})]
                   /\ pc' = "allSettled"
                   /\ UNCHANGED purchaseVars
              ELSE /\ beginPurchase(calls)
                   /\ UNCHANGED <<pipe, checks, fault>>
    /\ UNCHANGED <<run, currentRound, threw, storeVars, rankLabels, rejectedIssues, exitVars>>

GetWaitingIssuesFail ==
    /\ pc = "getWaitingIssues"
    /\ \E e \in Thrown("getWaitingIssues") : runCatch(e)
    /\ UNCHANGED <<run, currentRound, storeVars, pipeVars, purchaseVars, calls>>

\* service.check(number, round) returns a rank.  When it is the last check
\* of its issue, Promise.all resolves, the labels are computed and
\* markIssueAsChecked is issued.  Nothing reads the rank of a check whose
\* Promise.all has already rejected.
CheckReturn(t, i, r) ==
    /\ Running
    /\ i \in 1..Len(checks[t])
    /\ checks[t][i].st = "pending"
    /\ LET chks == [checks[t] EXCEPT
                       ![i] = IF pipe[t] = "awaitChecks" THEN Fulfilled(r) ELSE Dropped]
       IN  /\ checks' = [checks EXCEPT ![t] = chks]
           /\ IF pipe[t] = "awaitChecks" /\ PromiseAll(chks) = "fulfilled"
              THEN /\ rankLabels' = [rankLabels EXCEPT ![t] = RankLabelsOf(RanksOf(chks))]
                   /\ pipe' = [pipe EXCEPT ![t] = "awaitMark"]
                   /\ calls' = Called("markIssueAsChecked", 1)
              ELSE UNCHANGED <<rankLabels, pipe, calls>>
    /\ UNCHANGED <<pc, run, currentRound, threw, storeVars, waitingIssues, fault,
                   rejectedIssues, purchaseVars, exitVars>>

\* service.check throws: Promise.all rejects at the first rejection, and the
\* pipeline with it; the issue's other checks stay in flight
CheckFail(t, i) ==
    /\ Running
    /\ i \in 1..Len(checks[t])
    /\ checks[t][i].st = "pending"
    /\ LET chks == [checks[t] EXCEPT ![i] = Rejected]
       IN  /\ checks' = [checks EXCEPT ![t] = DropSettled(chks)]
           /\ IF pipe[t] = "awaitChecks" /\ PromiseAll(chks) = "rejected"
              THEN /\ pipe' = [pipe EXCEPT ![t] = "rejected"]
                   /\ fault' = [fault EXCEPT ![t] = "check"]
              ELSE UNCHANGED <<pipe, fault>>
    /\ UNCHANGED <<pc, run, currentRound, threw, storeVars, waitingIssues, rankLabels,
                   rejectedIssues, purchaseVars, exitVars, calls>>

\* markIssueAsChecked(number, labels) of the store: one update that replaces
\* the waiting label by the rank labels
markIssueAsChecked(t, lbls) ==
    /\ status' = [status EXCEPT ![t] = "Checked"]
    /\ labels' = [labels EXCEPT ![t] = {lbls[i] : i \in 1..Len(lbls)}]
    /\ marked' = [marked EXCEPT ![t] = @ + 1]
    /\ UNCHANGED body

\* the callback of an issue ends: its locals (ranks, rankLabels) are gone
EndPipe(t, p) ==
    /\ pipe' = [pipe EXCEPT ![t] = p]
    /\ checks' = [checks EXCEPT ![t] = <<>>]
    /\ rankLabels' = [rankLabels EXCEPT ![t] = <<>>]

\* markIssueAsChecked returns: the pipeline of the issue is fulfilled
MarkReturn(t) ==
    /\ Running
    /\ pipe[t] = "awaitMark"
    /\ markIssueAsChecked(t, rankLabels[t])
    /\ EndPipe(t, "fulfilled")
    /\ UNCHANGED <<pc, run, currentRound, threw, waitingIssues, fault,
                   rejectedIssues, purchaseVars, exitVars, calls>>

\* markIssueAsChecked throws: the pipeline of the issue is rejected
MarkFail(t) ==
    /\ Running
    /\ pipe[t] = "awaitMark"
    /\ EndPipe(t, "rejected")
    /\ fault' = [fault EXCEPT ![t] = "mark"]
    /\ UNCHANGED <<pc, run, currentRound, threw, storeVars, waitingIssues,
                   rejectedIssues, purchaseVars, exitVars, calls>>

\* variant: a rejected pipeline is re-raised out of runWinningCheck, as
\* "await Promise.all(promises)" would do
AllSettledRaising ==
    /\ pc = "allSettled"
    /\ PromiseAllSettled(pipe, waitingIssues)
    /\ rejectedIssues' = RejectedCount(pipe, waitingIssues)
    /\ IF rejectedIssues' > 0
       THEN /\ \E e \in Thrown("runWinningCheck") : runCatch(e)
            /\ UNCHANGED <<calls, purchaseVars>>
       ELSE /\ beginPurchase(calls)
            /\ UNCHANGED <<threw, checks, exitVars>>
    /\ UNCHANGED <<run, currentRound, storeVars, waitingIssues, pipe,
                   rankLabels, fault>>

\* Promise.allSettled resolves: the rejections are counted, runWinningCheck
\* returns and runPurchase starts
AllSettled ==
    /\ pc = "allSettled"
    /\ PromiseAllSettled(pipe, waitingIssues)
    /\ rejectedIssues' = RejectedCount(pipe, waitingIssues)
    /\ beginPurchase(calls)
    /\ UNCHANGED <<run, currentRound, threw, storeVars, waitingIssues, pipe, checks,
                   rankLabels, fault, exitVars>>

\* ---------------------------------------------------------- runPurchase (2)
\* variant: a catch block that does not release the session
runPurchaseCatchNoDestroy(e) ==
    /\ threw' = threw \cup {e.message}
    /\ caught' = e
    /\ pc' = "destroy"
    /\ calls' = calls
    /\ numbers' = <<>>
    /\ issueBody' = AbsentBody

\* runPurchase's catch block up to its await: service.destroy() is issued;
\* the constants of the try block (numbers, issueBody) are out of scope
runPurchaseCatch(e) ==
    /\ threw' = threw \cup {e.message}
    /\ caught' = e
    /\ pc' = "destroy"
    /\ calls' = Called("destroy", 1)
    /\ numbers' = <<>>
    /\ issueBody' = AbsentBody

\* the target round: getCurrentLottoRound() + 1
\* variant: the ticket is filed under the round now on sale at the site's counter
TargetRoundIsCurrent == currentRound

TargetRound == currentRound + 1

\* the combinations service.purchase(n) returns: exactly n of them
Purchased(n) == [i \in 1..n |-> i]

\* the purchase call has settled: the amount and its input are not read
\* again
AmountUsed ==
    /\ amountInput' = NoInput
    /\ amount' = 0

\* service.purchase returns; the round, the link and the body are computed
\* and createWaitingIssue is issued
PurchaseOk ==
    /\ pc = "purchase"
    /\ numbers' = Purchased(amount)
    /\ issueBody' = bodyBuilder(TargetRound, numbers',
                               getCheckWinningLink(TargetRound, numbers'))
    /\ pc' = "createWaitingIssue"
    /\ calls' = Called("createWaitingIssue", 1)
    /\ AmountUsed
    /\ UNCHANGED <<run, currentRound, threw, storeVars, checkVars, caught, exitVars>>

\* variant: the purchase failure is swallowed and an issue without numbers
\* is recorded
PurchaseFailIgnored ==
    /\ pc = "purchase"
    /\ threw' = threw \cup {"purchase"}
    /\ numbers' = <<>>
    /\ issueBody' = bodyBuilder(TargetRound, numbers',
                               getCheckWinningLink(TargetRound, numbers'))
    /\ pc' = "createWaitingIssue"
    /\ calls' = Called("createWaitingIssue", 1)
    /\ AmountUsed
    /\ UNCHANGED <<run, currentRound, storeVars, checkVars, caught, exitVars>>

\* service.purchase throws
PurchaseFail ==
    /\ pc = "purchase"
    /\ \E e \in Thrown("purchase") : runPurchaseCatch(e)
    /\ AmountUsed
    /\ UNCHANGED <<run, currentRound, storeVars, checkVars, exitVars>>

\* service.purchase returns and one of the synchronous steps after it throws
PurchaseThenThrow ==
    /\ pc = "purchase"
    /\ \E step \in {"getCurrentLottoRound", "getCheckWinningLink", "bodyBuilder"} :
        \E e \in Thrown(step) : runPurchaseCatch(e)
    /\ AmountUsed
    /\ UNCHANGED <<run, currentRound, storeVars, checkVars, exitVars>>

\* createWaitingIssue(date, body) of the store: a new issue with the waiting
\* label
createWaitingIssue(b) ==
    LET t == CHOOSE x \in Tickets :
                 status[x] = "None" /\ \A y \in Tickets : y < x => status[y] # "None"
    IN  /\ status' = [status EXCEPT ![t] = "Awaiting"]
        /\ body' = [body EXCEPT ![t] = b]
        /\ UNCHANGED <<labels, marked>>

\* createWaitingIssue returns: runPurchase returns and run() exits
\* variant: the session is released on the success path as well
CreateOkThenDestroy ==
    /\ pc = "createWaitingIssue"
    /\ createWaitingIssue(issueBody)
    /\ calls' = Called("destroy", 1)
    /\ UNCHANGED <<run, currentRound, threw, pipeVars, purchaseVars, failed, exitCode>>
    /\ runFinally

CreateOk ==
    /\ pc = "createWaitingIssue"
    /\ createWaitingIssue(issueBody)
    /\ UNCHANGED <<run, currentRound, threw, pipeVars, purchaseVars, failed, exitCode, calls>>
    /\ runFinally

CreateFail ==
    /\ pc = "createWaitingIssue"
    /\ \E e \in Thrown("createWaitingIssue") : runPurchaseCatch(e)
    /\ UNCHANGED <<run, currentRound, storeVars, checkVars, amountInput, amount, exitVars>>

\* service.destroy() returns: the caught value is reported if it is an Error
DestroyOk ==
    /\ pc = "destroy"
    /\ IF caught.isError THEN setFailed(caught) ELSE UNCHANGED <<failed, exitCode>>
    /\ runFinally
    /\ UNCHANGED <<run, currentRound, threw, storeVars, pipeVars, purchaseVars, calls>>

\* service.destroy() throws inside the catch block: the throw reaches run()
DestroyFail ==
    /\ pc = "destroy"
    /\ \E e \in Thrown("destroy") : runCatch(e)
    /\ UNCHANGED <<run, currentRound, storeVars, pipeVars, purchaseVars, calls>>

\* ------------------------------------------------------------------ Next
Next ==
    \/ StartRun
    \/ InitLabelsOk
    \/ InitLabelsFail
    \/ InstallBrowserOk
    \/ InstallBrowserFail
    \/ ConstructFail
    \/ SignInOk
    \/ SignInFail
    \/ GetWaitingIssuesOk
    \/ GetWaitingIssuesFail
    \/ \E t \in Tickets, i \in 1..MaxAmount, r \in Ranks : CheckReturn(t, i, r)
    \/ \E t \in Tickets, i \in 1..MaxAmount : CheckFail(t, i)
    \/ \E t \in Tickets : MarkReturn(t)
    \/ \E t \in Tickets : MarkFail(t)
    \/ AllSettled
    \/ PurchaseOk
    \/ PurchaseFail
    \/ PurchaseThenThrow
    \/ CreateOk
    \/ CreateFail
    \/ DestroyOk
    \/ DestroyFail

Spec == Init /\ [][Next]_vars

\* one run in which every external call eventually returns or throws
FairSpec == LastRunInit /\ [][Next]_vars /\ WF_vars(Next)

\* ================================================================ claims
\* runWinningCheck has returned in this run: runPurchase has issued its call
CheckerReturned == calls["purchase"] > 0

InFlight(t) == {i \in 1..Len(checks[t]) : checks[t][i].st = "pending"}

\* C1 (failure isolation): once runWinningCheck has returned, every fetched
\* issue that has a body and whose decode, checks and store update all
\* succeeded is Checked, and every fetched issue whose pipeline threw is still
\* Awaiting, whatever happened to the other issues and in whatever order.
C1_FailureIsolation ==
    CheckerReturned =>
        \A t \in waitingIssues :
            /\ (body[t].kind # "absent" /\ fault[t] = "none") => status[t] = "Checked"
            /\ fault[t] # "none" => status[t] = "Awaiting"

C1_Witness ==
    /\ CheckerReturned
    /\ \E a, b \in waitingIssues :
        /\ fault[a] \in {"decode", "check", "mark"}
        /\ fault[b] = "none"
        /\ status[b] = "Checked"
        /\ Len(bodyParser(body[b]).numbers) > 1

\* C2 (purchase atomicity): in a run whose service.purchase call threw,
\* createWaitingIssue is never called and service.destroy is called exactly
\* once.
C2_PurchaseAtomicity ==
    "purchase" \in threw =>
        /\ calls["createWaitingIssue"] = 0
        /\ calls["destroy"] = 1
        /\ pc \in {"destroy", "exited"}

C2_Witness ==
    /\ pc = "exited"
    /\ "purchase" \in threw
    /\ calls["destroy"] = 1

\* C3 (checking and purchasing never overlap): while service.purchase is in
\* flight, no service.check call is in flight.
C3_NoOverlap ==
    pc = "purchase" => \A t \in Tickets : InFlight(t) = {}

\* C4 (termination with status 0): with every external call eventually
\* returning or throwing, a started run eventually exits, and the status the
\* process exits with is always 0, also after core.setFailed.
C4_ExitsWithZero ==
    /\ Running ~> (pc = "exited")
    /\ [](pc = "exited" => exitStatus = 0)

C4_Witness ==
    /\ pc = "exited"
    /\ exitStatus = 0
    /\ exitCode = 1
    /\ Len(failed) > 0

\* the calls whose throw reaches the catch block of run()
Escaping == {"initLabels", "installBrowser", "LottoService", "signIn",
             "getWaitingIssues", "destroy"}

\* C5 (the controller sets the failure signal): when a throw of label
\* bootstrap, session bootstrap, the fetch or the purchase phase has reached
\* run(), core.setFailed has been called by the time the process exits,
\* whatever value was thrown.
C5_FailureSignalSet ==
    (pc = "exited" /\ threw \cap Escaping # {}) => Len(failed) > 0

\* C6 (bootstrap failure is fatal): in a run in which installBrowser, the
\* LottoService constructor or signIn threw, no getWaitingIssues, check,
\* markIssueAsChecked, purchase or createWaitingIssue call is issued.
C6_BootstrapFatal ==
    threw \cap {"installBrowser", "LottoService", "signIn"} # {} =>
        /\ pc = "exited"
        /\ \A op \in {"getWaitingIssues", "check", "markIssueAsChecked",
                      "purchase", "createWaitingIssue"} : calls[op] = 0

C6_Witness ==
    /\ pc = "exited"
    /\ "signIn" \in threw
    /\ calls["signIn"] = 1
    /\ \E t \in Tickets : status[t] = "Awaiting"

\* the amount the specification asks for: the input as an integer clamped to
\* [1, 5], and 5 for an absent or non-numeric input
ClaimedAmount(inp) ==
    IF inp.kind = "number" THEN Max(1, Min(inp.value, 5)) ELSE 5

\* C7 (amount clamping): the amount passed to service.purchase is the input
\* parsed as an integer and clamped to [1, 5], 5 when the input is absent or
\* not a number; 0 gives 1.
C7_AmountClamping ==
    pc = "purchase" => amount = ClaimedAmount(amountInput)

\* a step leaves a Checked issue alone: no update is applied to it and no
\* pipeline starts awaiting a check or an update for it
C8_Step ==
    \A t \in Tickets :
        status[t] = "Checked" =>
            /\ status'[t] = "Checked"
            /\ marked'[t] = marked[t]
            /\ labels'[t] = labels[t]
            /\ pipe'[t] \notin {"awaitChecks", "awaitMark"}

\* C8 (idempotent transition): over successive runs on one store, an issue is
\* marked Checked at most once, and once it is Checked no run issues a
\* service.check or a markIssueAsChecked for it or changes its labels.
C8_IdempotentTransition ==
    /\ [](\A t \in Tickets : marked[t] <= 1)
    /\ [][C8_Step]_vars

C8_Witness ==
    /\ run = 2
    /\ pc = "allSettled"
    /\ \E t \in Tickets, u \in waitingIssues :
        /\ status[t] = "Checked"
        /\ marked[t] = 1
        /\ t \notin waitingIssues
        /\ pipe[u] = "awaitChecks"

\* C9 (dedup): the labels passed to markIssueAsChecked are exactly the labels
\* of the ranks the issue's checks returned, each once, whatever the order in
\* which the checks completed.
C9_LabelSet ==
    \A t \in Tickets :
        pipe[t] = "awaitMark" =>
            LET L == rankLabels[t]
            IN  /\ {L[i] : i \in 1..Len(L)}
                     = {rankToLabel(checks[t][i].rank) : i \in 1..Len(checks[t])}
                /\ \A i, j \in 1..Len(L) : L[i] = L[j] => i = j

C9_Witness ==
    \E t \in Tickets :
        /\ pipe[t] = "awaitMark"
        /\ RanksOf(checks[t]) = <<5, 5, 3>>
        /\ Len(rankLabels[t]) = 2

\* the steps of runPurchase that come before createWaitingIssue
PurchaseSteps == {"purchase", "getCurrentLottoRound", "getCheckWinningLink", "bodyBuilder"}

\* createWaitingIssue is issued only after those steps succeeded, with the
\* body of the purchased numbers
C10_Inv ==
    /\ calls["createWaitingIssue"] > 0 =>
        /\ calls["purchase"] = 1
        /\ threw \cap PurchaseSteps = {}
    /\ pc = "createWaitingIssue" =>
        /\ bodyParser(issueBody).numbers = numbers
        /\ Len(numbers) \in 1..5

\* an issue appears in the store only by createWaitingIssue returning, and
\* it carries the purchased numbers
C10_Step ==
    \A t \in Tickets :
        (status[t] = "None" /\ status'[t] # "None") =>
            /\ pc = "createWaitingIssue"
            /\ status'[t] = "Awaiting"
            /\ body'[t] = issueBody
            /\ bodyParser(body'[t]).numbers = numbers
            /\ Len(numbers) \in 1..5

\* C10 (no ticket on a failure path): createWaitingIssue is called only after
\* service.purchase has returned and the round, link and body have been
\* computed; the issue it creates carries exactly the purchased combinations,
\* between 1 and 5 of them; when purchase or one of those computations
\* throws, no issue is created.
C10_TicketOnlyAfterPurchase ==
    /\ []C10_Inv
    /\ [][C10_Step]_vars

C10_Witness ==
    /\ pc = "exited"
    /\ calls["createWaitingIssue"] = 1
    /\ threw = {}
    /\ Len(numbers) = 3
    /\ \E t \in Tickets : status[t] = "Awaiting" /\ body[t] = issueBody

\* every call of the purchase phase that can throw into runPurchase's catch
PurchasePhase == PurchaseSteps \cup {"createWaitingIssue"}

\* C11 (release only on the purchase-failure path): in every run
\* service.destroy is called at most once, only after a step of the purchase
\* phase has thrown, and never in a run whose purchase phase succeeds or
\* whose bootstrap or fetch throws.
C11_ReleaseOnlyOnPurchaseFailure ==
    /\ calls["destroy"] <= 1
    /\ calls["destroy"] = 1 => threw \cap PurchasePhase # {}
    /\ threw \cap PurchasePhase = {} => calls["destroy"] = 0
    /\ (threw \cap (Escaping \ {"destroy"}) # {}) => calls["destroy"] = 0

C11_Witness ==
    /\ pc = "exited"
    /\ calls["createWaitingIssue"] = 1
    /\ "createWaitingIssue" \in threw
    /\ calls["destroy"] = 1

\* the fetch of this run has returned
Fetched ==
    /\ calls["getWaitingIssues"] = 1
    /\ pc # "getWaitingIssues"
    /\ "getWaitingIssues" \notin threw

\* C12 (empty-awaiting no-op): when getWaitingIssues returns no issue, the
\* checker issues no service.check and no markIssueAsChecked, counts no
\* failure, sets no failure signal of its own and returns, so that
\* service.purchase is issued.
C12_EmptyAwaitingNoOp ==
    (Fetched /\ waitingIssues = {}) =>
        /\ calls["check"] = 0
        /\ calls["markIssueAsChecked"] = 0
        /\ rejectedIssues = 0
        /\ calls["purchase"] = 1
        /\ \A t \in Tickets : pipe[t] = "none" /\ fault[t] = "none"

C12_Witness ==
    /\ pc = "purchase"
    /\ waitingIssues = {}
    /\ \E t \in Tickets : status[t] = "Checked"

\* C13 (round computation): every ticket created by runPurchase is encoded
\* with round = getCurrentLottoRound() + 1 and with the link computed from
\* that same round and the purchased combinations, and that is the body the
\* created issue carries.
C13_RoundComputation ==
    [][ /\ pc = "createWaitingIssue" =>
              /\ issueBody.round = currentRound + 1
              /\ issueBody.numbers = numbers
              /\ issueBody.link = getCheckWinningLink(currentRound + 1, numbers)
        /\ \A t \in Tickets :
              (status[t] = "None" /\ status'[t] # "None") =>
                  /\ pc = "createWaitingIssue"
                  /\ status'[t] = "Awaiting"
                  /\ body'[t] = bodyBuilder(currentRound + 1, numbers,
                                    getCheckWinningLink(currentRound + 1, numbers)) ]_vars

C13_Witness ==
    /\ pc = "exited"
    /\ threw = {}
    /\ currentRound = FirstRound
    /\ calls["createWaitingIssue"] = 1
    /\ \E t \in Tickets :
          /\ status[t] = "Awaiting"
          /\ body[t].round = FirstRound + 1
          /\ body[t].link = getCheckWinningLink(FirstRound + 1, body[t].numbers)
          /\ Len(body[t].numbers) = MaxAmount

C14_Inv ==
    /\ CheckerReturned => \A t \in waitingIssues : Settled(pipe[t])
    /\ pc = "purchase" => (Len(failed) = 0 /\ threw = {})
    /\ (pc = "exited" /\ Fetched) => calls["purchase"] = 1

C14_Step ==
    /\ (pc = "allSettled" /\ pc' # "allSettled") =>
          /\ pc' = "purchase"
          /\ calls'["purchase"] = 1
          /\ failed' = failed
          /\ threw' = threw
    /\ CheckerReturned =>
          /\ calls'["markIssueAsChecked"] <= calls["markIssueAsChecked"]
          /\ \A t \in Tickets : status'[t] = "Checked" => status[t] = "Checked"

\* C14 (per-ticket failures do not raise past the checker): whatever number
\* of issue pipelines rejected, runWinningCheck returns without throwing and
\* without core.setFailed, service.purchase is issued next, and it is issued
\* only when every pipeline has settled: after it no markIssueAsChecked is
\* issued and no issue becomes Checked.
C14_FailuresStayInChecker == []C14_Inv /\ [][C14_Step]_vars

C14_Witness ==
    /\ pc = "purchase"
    /\ Cardinality(waitingIssues) >= 2
    /\ \A t \in waitingIssues : pipe[t] = "rejected"
    /\ \E t \in waitingIssues : fault[t] = "check"
    /\ \E t \in waitingIssues : fault[t] = "mark"

\* C15 (a purchase-phase failure is surfaced after the release): when the
\* process exits after service.purchase, the round or link computation, the
\* body encoding or createWaitingIssue threw, service.destroy has been called
\* and core.setFailed has been called with the message of that error, also
\* when service.destroy itself threw.  Stated for thrown Error instances,
\* the values whose message run() does report.
C15_PurchaseFailureSurfaced ==
    (pc = "exited" /\ threw \cap PurchasePhase # {} /\ caught.isError) =>
        /\ calls["destroy"] = 1
        /\ \E i \in 1..Len(failed) : failed[i] \in PurchasePhase

\* the fetched issues whose pipeline threw: in the decode, in a check or in
\* the store update
Faulted == {t \in waitingIssues : fault[t] \in {"decode", "check", "mark"}}

\* C16 (failure count): once runWinningCheck has returned, the number of
\* rejected pipelines it counted is the number of fetched issues whose
\* pipeline threw, and an issue whose pipeline has already rejected is not
\* counted again when another of its checks settles.
C16_FailureCount ==
    /\ [](CheckerReturned => rejectedIssues = Cardinality(Faulted))
    /\ [][\A t \in Tickets :
             (pipe[t] = "rejected" /\ checks'[t] # checks[t]) =>
                 /\ pipe'[t] = "rejected"
                 /\ fault'[t] = fault[t]
                 /\ rejectedIssues' = rejectedIssues]_vars

C16_Witness ==
    /\ CheckerReturned
    /\ rejectedIssues = 1
    /\ Cardinality(waitingIssues) = 2
    /\ \E t \in waitingIssues :
          /\ fault[t] = "check"
          /\ Len(checks[t]) >= 2
          /\ \A i \in 1..Len(checks[t]) : checks[t][i].st = "dropped"

\* the fetched issues whose body decodes to no combination at all
ZeroCombinations ==
    {t \in waitingIssues : Decodes(body[t]) /\ Len(bodyParser(body[t]).numbers) = 0}

\* C17 as claimed (zero combinations are a no-op success): the pipeline of a
\* fetched issue whose body decodes to zero combinations is fulfilled
\* without any service.check call and without any change to the issue in
\* the store.
C17_ZeroCombinationsNoOp ==
    \A t \in ZeroCombinations :
        /\ checks[t] = <<>>
        /\ pipe[t] = "fulfilled"
        /\ status[t] = "Awaiting"
        /\ marked[t] = 0

\* C17 as amended: for a fetched issue whose body decodes to zero
\* combinations no service.check is issued, markIssueAsChecked is called
\* with an empty label list, and the pipeline is fulfilled with the issue
\* Checked and without rank label when that update returns, and rejected
\* with the issue still Awaiting when it throws.
C17_ZeroCombinationsMarked ==
    \A t \in ZeroCombinations :
        /\ checks[t] = <<>>
        /\ pipe[t] \in {"awaitMark", "fulfilled", "rejected"}
        /\ pipe[t] = "awaitMark" =>
              (rankLabels[t] = <<>> /\ status[t] = "Awaiting" /\ marked[t] = 0)
        /\ pipe[t] = "fulfilled" =>
              (status[t] = "Checked" /\ labels[t] = {} /\ marked[t] = 1
                  /\ fault[t] = "none")
        /\ pipe[t] = "rejected" =>
              (status[t] = "Awaiting" /\ marked[t] = 0 /\ fault[t] = "mark")

C17_Witness ==
    /\ CheckerReturned
    /\ rejectedIssues = 0
    /\ calls["check"] = 0
    /\ calls["markIssueAsChecked"] = 1
    /\ \E t \in ZeroCombinations :
          /\ pipe[t] = "fulfilled"
          /\ status[t] = "Checked"
          /\ labels[t] = {}

\* the calls that read or write issues of the store
StoreCalls == {"getWaitingIssues", "markIssueAsChecked", "createWaitingIssue"}

\* C18 (label bootstrap first): while initLabels has not returned, and for
\* the whole run when it threw, no getWaitingIssues, markIssueAsChecked or
\* createWaitingIssue call has been issued and no step changes the store.
C18_LabelsBeforeTickets ==
    /\ []((pc = "initLabels" \/ "initLabels" \in threw) =>
              \A op \in StoreCalls : calls[op] = 0)
    /\ [][(pc = "initLabels" \/ "initLabels" \in threw') =>
              (storeVars' = storeVars /\ pc' \in {"installBrowser", "exited"})]_vars

C18_Witness ==
    /\ pc = "exited"
    /\ "initLabels" \in threw
    /\ run = MaxRuns
    /\ \E t \in Tickets : status[t] = "Awaiting" /\ Decodes(body[t])

\* C19 (every fetched issue is accounted for): once runWinningCheck has
\* returned, every issue getWaitingIssues returned is either Checked or its
\* pipeline is among the rejected ones that were counted; none, an issue
\* with an absent or empty body included, is left Awaiting by a fulfilled
\* pipeline.
C19_FetchedAccountedFor ==
    CheckerReturned =>
        \A t \in waitingIssues :
            \/ status[t] = "Checked"
            \/ (pipe[t] = "rejected" /\ rejectedIssues > 0)

\* every service.check of issue t has returned a rank
AllChecksReturned(t) ==
    /\ Len(checks[t]) = Len(bodyParser(body[t]).numbers)
    /\ \A i \in 1..Len(checks[t]) : checks[t][i].st = "fulfilled"

C20_Inv ==
    \A t \in Tickets :
        /\ pipe[t] = "awaitMark" => AllChecksReturned(t)
        /\ pipe[t] = "awaitChecks" =>
              \A i \in 1..Len(checks[t]) : checks[t][i].st \in {"pending", "fulfilled"}
        /\ fault[t] = "check" => (pipe[t] = "rejected" /\ status[t] = "Awaiting")

C20_Step ==
    /\ calls'["markIssueAsChecked"] > calls["markIssueAsChecked"] =>
          \E t \in waitingIssues' :
              /\ pipe[t] # "awaitMark"
              /\ pipe'[t] = "awaitMark"
              /\ AllChecksReturned(t)'
    /\ \A t \in Tickets :
          (status[t] = "Awaiting" /\ status'[t] = "Checked") =>
              (pipe[t] = "awaitMark" /\ AllChecksReturned(t))

\* C20 (no partial labelling): markIssueAsChecked is issued for an issue only
\* when every one of its service.check calls has returned a rank; as soon as
\* one of them throws, the pipeline of the issue is rejected, and the issue
\* stays Awaiting for the rest of the run whatever its other checks do.
C20_NoPartialLabelling == []C20_Inv /\ [][C20_Step]_vars

C20_Witness ==
    /\ CheckerReturned
    /\ \E t \in waitingIssues :
          /\ fault[t] = "check"
          /\ status[t] = "Awaiting"
          /\ Len(checks[t]) >= 2
          /\ \A i \in 1..Len(checks[t]) : checks[t][i].st = "dropped"
    /\ \E t \in waitingIssues :
          /\ status[t] = "Checked"
          /\ Len(bodyParser(body[t]).numbers) >= 2

====
